---- MODULE Spec2Model ----
(***************************************************************************)
(* Hierarchy classification engine and override-aware upsert protocol of   *)
(* datawarehouse-job: the rule-based mapper (src/etl/hierarchy_mapper.py), *)
(* the hierarchy and override operations (src/database/operations.py) and  *)
(* the import scripts that write the same tables.                          *)
(*                                                                         *)
(* Conventions.  A text value is a TLA+ string; SQL NULL / Python None is  *)
(* the sentinel NULL, distinct from the empty text "".  A campaign name or *)
(* a pattern is a sequence of one-character strings, so that lower(),      *)
(* startswith(), "in" and re.search can be computed.  A confidence is kept *)
(* in tenths (0.1 is 1, 1.0 is 10).                                        *)
(***************************************************************************)
EXTENDS Integers, Sequences, FiniteSets, TLC

VARIABLES
    campaign_hierarchy,   \* table campaign_hierarchy: a set of rows
    overrides,            \* table campaign_hierarchy_overrides: rows in rowid order
    now,                  \* the clock read by datetime.now(timezone.utc)
    dirty,                \* the connection has executed statements it has not committed
    last,                 \* the operation that ran last, its arguments and result
    set_calls,            \* per campaign, the override-set operations completed so far
    rules_file,           \* the rules of config/hierarchy_rules.yaml, in file order
    map_name,             \* the campaign name handed to the mapper
    map_result,           \* what apply_mapping_rules returned for it
    hierarchy_rules,      \* table hierarchy_rules, in rowid order
    committed,            \* overrides table as committed to the database file
    wtxn,                 \* the writer connection: position and uncommitted rows
    rseen,                \* what the reader connection last observed
    conf_in,              \* the arguments of a call of get_mapping_confidence
    conf_out,             \* what that call returned
    rules_data,           \* the rule document handed to RuleManager.validate_rules
    errors,               \* what validate_rules returned for it
    sync_history,         \* table sync_history: the status of each row, in id order
    current_sync_id,      \* ETLPipeline.current_sync_id (0 for None)
    upsert_pc,            \* a sync connection inside upsert_campaign_hierarchy
    cached_rules,         \* HierarchyMapper._cached_rules (<<>> for None)
    cache_timestamp,      \* HierarchyMapper._cache_timestamp (0 for None)
    yaml_mtime,           \* st_mtime of the rule file
    load_pc               \* a call of load_rules_from_yaml that has read the file

vars == <<campaign_hierarchy, overrides, now, dirty, last, set_calls, rules_file, map_name,
          map_result, hierarchy_rules, committed, wtxn, rseen,
          conf_in, conf_out, rules_data, errors,
          sync_history, current_sync_id, upsert_pc,
          cached_rules, cache_timestamp, yaml_mtime, load_pc>>

dbVars == <<campaign_hierarchy, overrides, now, dirty, last, set_calls>>
mapVars == <<rules_file, map_name, map_result, hierarchy_rules>>
concVars == <<committed, wtxn, rseen>>
toolVars == <<conf_in, conf_out, rules_data, errors>>
syncVars == <<sync_history, current_sync_id>>
cacheVars == <<cached_rules, cache_timestamp, yaml_mtime, load_pc>>
pipeVars == <<sync_history, current_sync_id, upsert_pc,
              cached_rules, cache_timestamp, yaml_mtime, load_pc>>

\* ---------------------------------------------------------------- bounds
MaxOverrides == 2
MaxRules == 3
MaxMatched == 5

\* ---------------------------------------------------------------- values
NULL == "<NULL>"

Fields == {"network", "domain", "placement", "targeting", "special"}

\* Python truthiness of an optional text: None and "" are falsy.
Truthy(v) == v # NULL /\ v # ""

Hier(n, d, p, t, s) ==
    [network |-> n, domain |-> d, placement |-> p, targeting |-> t, special |-> s]

\* ---------------------------------------------------------------- text
LowerChar(ch) ==
    CASE ch = "P" -> "p"
      [] ch = "H" -> "h"
      [] ch = "G" -> "g"
      [] OTHER -> ch

lower(s) == [i \in 1..Len(s) |-> LowerChar(s[i])]

startswith(s, p) == Len(p) <= Len(s) /\ SubSeq(s, 1, Len(p)) = p

endswith(s, p) == Len(p) <= Len(s) /\ SubSeq(s, Len(s) - Len(p) + 1, Len(s)) = p

\* Python: p in s
contains(s, p) ==
    \E i \in 1..(Len(s) + 1) : i + Len(p) - 1 <= Len(s) /\ SubSeq(s, i, i + Len(p) - 1) = p

\* re.compile: of the patterns used here, one with an unclosed "(" does not compile.
RegexCompiles(p) == ~ \E i \in 1..Len(p) : p[i] = "("

\* re.search(p, s, re.IGNORECASE) for the patterns used here: ".*" matches every
\* subject, the empty one included; a pattern of letters matches where it occurs,
\* whatever the case.
RegexSearch(p, s) ==
    IF p = <<".", "*">> THEN TRUE ELSE contains(lower(s), lower(p))

\* str.lower() of a pattern_type
LowerType(t) ==
    CASE t = "EXACT" -> "exact"
      [] t = "Regex" -> "regex"
      [] OTHER -> t

\* ---------------------------------------------------------------- rules
Rule(n, prio, ptype, pvalue, m, act) ==
    [name |-> n, priority |-> prio, pattern_type |-> ptype, pattern_value |-> pvalue,
     mapping |-> m, active |-> act]

\* HierarchyMapper.default_hierarchy
default_hierarchy == Hier("Unknown", "Unknown Network", "Unknown", "Unknown", "Standard")

\* 'Unknown' in value, for the values that occur
ContainsUnknown(v) == v \in {"Unknown", "Unknown Network"}

\* One row of hierarchy_rules as DatabaseSchema.insert_default_hierarchy_rules writes
\* it: every rule but "Default Rule" gets priority 1000 - len(default_rules).
NumDefaultRules == 19
DefaultRulePriority == 100

DbRule(n, ptype, pvalue, m) ==
    [rule_name |-> n, pattern_type |-> ptype, pattern_value |-> pvalue,
     network |-> m.network, domain |-> m.domain, placement |-> m.placement,
     targeting |-> m.targeting, special |-> m.special,
     priority |-> IF n = "Default Rule" THEN DefaultRulePriority ELSE 1000 - NumDefaultRules,
     is_active |-> TRUE]

\* Three of the nineteen default rows: a platform rule, a generic rule that names
\* "Unknown" itself, and the catch-all.
insert_default_hierarchy_rules ==
    << DbRule("Google Search", "contains", <<"g">>,
              Hier("Google", "Search Network", "Text", "Search Users", "Intent")),
       DbRule("Premium Network", "contains", <<"p">>,
              Hier("Unknown", "Premium Network", "Unknown", "Premium Users", "High Value")),
       DbRule("Default Rule", "regex", <<".", "*">>,
              Hier("Unknown", "Unknown Network", "Unknown", "General", "Standard")) >>

\* sorted(rules, key=priority, reverse=True): stable, so rules of equal priority keep
\* their order.
RECURSIVE InsertSorted(_, _)
InsertSorted(sorted, r) ==
    IF sorted = <<>> THEN <<r>>
    ELSE IF Head(sorted).priority >= r.priority
         THEN <<Head(sorted)>> \o InsertSorted(Tail(sorted), r)
         ELSE <<r>> \o sorted

RECURSIVE SortByPriority(_)
SortByPriority(rs) ==
    IF rs = <<>> THEN <<>>
    ELSE InsertSorted(SortByPriority(SubSeq(rs, 1, Len(rs) - 1)), rs[Len(rs)])

\* HierarchyMapper.load_rules_from_yaml: the active rules, highest priority first
\* (the cache is not part of what it returns).
\* Mutant: the filter on 'active' is left out.
IsActiveRule_Always(r) == TRUE

IsActiveRule(r) == r.active

load_rules_from_yaml == SortByPriority(SelectSeq(rules_file, IsActiveRule))

\* DatabaseOperations.get_hierarchy_rules: active rows, ORDER BY priority DESC
IsActiveRow(r) == r.is_active

get_hierarchy_rules == SortByPriority(SelectSeq(hierarchy_rules, IsActiveRow))

\* HierarchyMapper.load_rules_from_database
ConvertedRule(row) ==
    Rule(row.rule_name, row.priority, row.pattern_type, row.pattern_value,
         Hier(row.network, row.domain, row.placement, row.targeting, row.special), TRUE)

load_rules_from_database ==
    SortByPriority([i \in 1..Len(get_hierarchy_rules) |-> ConvertedRule(get_hierarchy_rules[i])])

\* HierarchyMapper.get_rules(prefer_yaml=True)
get_rules ==
    IF load_rules_from_yaml # <<>> THEN load_rules_from_yaml ELSE load_rules_from_database

\* HierarchyMapper.match_rule
\* A YAML scalar that is not text: `pattern_value: 2024` loads as the int 2024.
YamlInt == <<"<int 2024>">>

IsText(v) == \A i \in 1..Len(v) : v[i] # "<int 2024>"

\* match_rule raises AttributeError: pattern_value.lower() stands before the try,
\* and an int that is not 0 passes `not pattern_value` and has no lower().
match_rule_raises(campaign_name, rule) ==
    /\ LowerType(rule.pattern_type) # ""
    /\ rule.pattern_value # <<>>
    /\ ~ IsText(rule.pattern_value)

\* HierarchyMapper.match_rule, when it returns
match_rule(campaign_name, rule) ==
    LET pattern_type == LowerType(rule.pattern_type)
        pattern_value == rule.pattern_value
        campaign_lower == lower(campaign_name)
        pattern_lower == lower(pattern_value)
    IN  IF pattern_type = "" \/ pattern_value = <<>> THEN FALSE
        ELSE CASE pattern_type = "exact" -> campaign_lower = pattern_lower
               [] pattern_type = "contains" -> contains(campaign_lower, pattern_lower)
               [] pattern_type = "starts_with" -> startswith(campaign_lower, pattern_lower)
               [] pattern_type = "ends_with" -> endswith(campaign_lower, pattern_lower)
               [] pattern_type = "regex" ->
                      IF RegexCompiles(pattern_value)
                      THEN RegexSearch(pattern_value, campaign_name)
                      ELSE FALSE
               [] OTHER -> FALSE

Min(a, b) == IF a <= b THEN a ELSE b
Max(a, b) == IF a >= b THEN a ELSE b

\* Mutant: the score is returned without the final max(0.1, min(1.0, ...)).
get_mapping_confidence_Unclamped(mapping, matched_rules) ==
    IF matched_rules = <<>> THEN 1
    ELSE LET base == IF Len(matched_rules) * 2 <= 8 THEN Len(matched_rules) * 2 ELSE 8
             exact == IF \E i \in 1..Len(matched_rules) :
                             matched_rules[i].pattern_type = "exact"
                      THEN 2 ELSE 0
             high == IF \E i \in 1..Len(matched_rules) :
                            matched_rules[i].priority >= 900
                     THEN 1 ELSE 0
             unknown_count == Cardinality({f \in Fields : ContainsUnknown(mapping[f])})
             penalty == IF unknown_count >= 3 THEN 2 ELSE 0
         IN  base + exact + high - penalty

\* Mutant: the high-priority bonus needs a priority above 900.
get_mapping_confidence_Above900(mapping, matched_rules) ==
    IF matched_rules = <<>> THEN 1
    ELSE LET base == IF Len(matched_rules) * 2 <= 8 THEN Len(matched_rules) * 2 ELSE 8
             exact == IF \E i \in 1..Len(matched_rules) :
                             matched_rules[i].pattern_type = "exact"
                      THEN 2 ELSE 0
             high == IF \E i \in 1..Len(matched_rules) :
                            matched_rules[i].priority > 900
                     THEN 1 ELSE 0
             unknown_count == Cardinality({f \in Fields : ContainsUnknown(mapping[f])})
             penalty == IF unknown_count >= 3 THEN 2 ELSE 0
             raw == base + exact + high - penalty
         IN  IF raw < 1 THEN 1 ELSE IF raw > 10 THEN 10 ELSE raw

\* HierarchyMapper.get_mapping_confidence, in tenths: every term of the score is a
\* multiple of 0.1 and the result is compared as such.
get_mapping_confidence(mapping, matched_rules) ==
    IF matched_rules = <<>> THEN 1
    ELSE LET base == Min(8, Len(matched_rules) * 2)
             exact == IF \E i \in 1..Len(matched_rules) :
                             matched_rules[i].pattern_type = "exact"
                      THEN 2 ELSE 0
             high == IF \E i \in 1..Len(matched_rules) :
                            matched_rules[i].priority >= 900
                     THEN 1 ELSE 0
             unknown_count == Cardinality({f \in Fields : ContainsUnknown(mapping[f])})
             penalty == IF unknown_count >= 3 THEN 2 ELSE 0
         IN  Max(1, Min(10, base + exact + high - penalty))

\* Mutant: the guard without its test that the rule gives the field a value.
SetsField_NoValueTest(value, current, field) ==
    value # "inherit" /\ current = default_hierarchy[field]

\* The guard of apply_mapping_rules on one field of one matching rule
SetsField(value, current, field) ==
    Truthy(value) /\ value # "inherit" /\ current = default_hierarchy[field]

\* The body of the loop of apply_mapping_rules for one matching rule
ApplyRule(final_mapping, rule) ==
    [f \in Fields |->
        IF SetsField(rule.mapping[f], final_mapping[f], f)
        THEN rule.mapping[f] ELSE final_mapping[f]]

MatchedEntry(rule) ==
    [name |-> rule.name, priority |-> rule.priority,
     pattern_type |-> rule.pattern_type, pattern_value |-> rule.pattern_value]

\* The mapping the loop starts from
InitialMapping == default_hierarchy

RECURSIVE ApplyRules(_, _, _, _)
ApplyRules(campaign_name, rules, final_mapping, matched_rules) ==
    IF rules = <<>>
    THEN [mapping |-> final_mapping, matched_rules |-> matched_rules,
          confidence |-> get_mapping_confidence(final_mapping, matched_rules)]
    ELSE IF match_rule_raises(campaign_name, Head(rules))
         THEN [raised |-> TRUE]
    ELSE IF match_rule(campaign_name, Head(rules))
         THEN ApplyRules(campaign_name, Tail(rules),
                         ApplyRule(final_mapping, Head(rules)),
                         Append(matched_rules, MatchedEntry(Head(rules))))
         ELSE ApplyRules(campaign_name, Tail(rules), final_mapping, matched_rules)

\* HierarchyMapper.apply_mapping_rules
apply_mapping_rules(campaign_name) ==
    IF get_rules = <<>>
    THEN [mapping |-> default_hierarchy, matched_rules |-> <<>>, confidence |-> 1]
    ELSE ApplyRules(campaign_name, get_rules, InitialMapping, <<>>)

\* ---------------------------------------------------------------- mapper inputs
\* Rule entries a rule file is drawn from.  "keep_unknown" names the default value
\* "Unknown" itself; "partial" leaves fields out of its mapping (mapping.get gives None).
RulePool ==
    { Rule("pornhub", 1000, "starts_with", <<"p", "h">>,
           Hier("Pornhub", "Adult Video Platform", "inherit", "inherit", "inherit"), TRUE),
      Rule("exact_ph", 950, "exact", <<"P", "h">>,
           Hier("inherit", "inherit", "Banner", "inherit", "Premium"), TRUE),
      Rule("keep_unknown", 500, "contains", <<"h">>,
           Hier("Unknown", "inherit", "inherit", "Adults", "inherit"), TRUE),
      Rule("bad_regex", 400, "regex", <<"(">>,
           Hier("Broken", "Broken", "Broken", "Broken", "Broken"), TRUE),
      Rule("partial", 300, "Regex", <<"h">>,
           Hier("inherit", NULL, NULL, "", "inherit"), TRUE),
      Rule("retired", 200, "contains", <<"p">>,
           Hier("Retired", "Retired", "Retired", "Retired", "Retired"), FALSE),
      Rule("google", 100, "ends_with", <<"G">>,
           Hier("Google", "Search Network", "inherit", "inherit", "Intent"), TRUE),
      Rule("bogus", 50, "fuzzy", <<"g">>,
           Hier("Bogus", "Bogus", "Bogus", "Bogus", "Bogus"), TRUE),
      Rule("fallback", 10, "regex", <<".", "*">>,
           Hier("Unknown", "Unknown Network", "Unknown", "Unknown", "Standard"), TRUE) }

\* Rule files: up to MaxRules distinct entries, in any order.
RuleFiles ==
    { f \in UNION { [1..n -> RulePool] : n \in 0..MaxRules } :
         \A i, j \in DOMAIN f : i # j => f[i] # f[j] }

CampaignNames == { <<>>, <<"P", "h">>, <<"p", "h", "x">>, <<"x", "g">>, <<"h", "G">> }

\* The rule file of the deployed configuration, reduced to its two ends: a platform
\* rule of the top band and the universal fallback.
DeployedRules ==
    << Rule("pornhub", 1000, "starts_with", <<"p", "h">>,
            Hier("Pornhub", "Adult Video Platform", "inherit", "inherit", "inherit"), TRUE),
       Rule("fallback", 10, "regex", <<".", "*">>,
            Hier("Unknown", "Unknown Network", "Unknown", "Unknown", "Standard"), TRUE) >>

\* ---------------------------------------------------------------- rule validation
\* RuleManager.validate_rules (scripts/manage_rules.py).  A rule document is a record
\* with the keys the YAML file has; a rule entry is a record with the keys it has.  In
\* a mapping a key the file leaves out holds NULL.  The error list is the list of the
\* kinds of the messages, in the order the code appends them.
pattern_types == {"contains", "starts_with", "ends_with", "regex", "exact"}

RequiredFields == <<"name", "priority", "pattern_type", "pattern_value", "mapping", "active">>

MappingFields == <<"network", "domain", "placement", "targeting", "special">>

\* "Missing required field" errors of one rule
MissingFieldErrors(rule) ==
    LET IsMissing(f) == f \notin DOMAIN rule
        missing == SelectSeq(RequiredFields, IsMissing)
    IN  [i \in 1..Len(missing) |-> "missing_required_field"]

\* The priority check of one rule, given the priorities seen so far
PriorityErrors(rule, priorities) ==
    IF "priority" \notin DOMAIN rule THEN <<>>
    ELSE IF rule.priority < 1 THEN <<"priority_not_positive">>
    ELSE IF rule.priority \in priorities THEN <<"duplicate_priority">>
    ELSE <<>>

SeenPriorities(rule, priorities) ==
    IF "priority" \in DOMAIN rule /\ rule.priority >= 1
    THEN priorities \cup {rule.priority}
    ELSE priorities

PatternErrors(rule) ==
    LET has_type == "pattern_type" \in DOMAIN rule
        pattern_value == IF "pattern_value" \in DOMAIN rule THEN rule.pattern_value ELSE <<>>
    IN  (IF has_type /\ rule.pattern_type # "" /\ rule.pattern_type \notin pattern_types
         THEN <<"invalid_pattern_type">> ELSE <<>>)
        \o (IF has_type /\ rule.pattern_type = "regex" /\ ~RegexCompiles(pattern_value)
            THEN <<"invalid_regex">> ELSE <<>>)

MappingErrors(rule) ==
    LET IsBad(f) == IF "mapping" \in DOMAIN rule THEN ~Truthy(rule.mapping[f]) ELSE TRUE
        bad == SelectSeq(MappingFields, IsBad)
    IN  [i \in 1..Len(bad) |->
            IF "mapping" \in DOMAIN rule /\ rule.mapping[bad[i]] = ""
            THEN "mapping_field_empty" ELSE "missing_mapping_field"]

RECURSIVE RuleListErrors(_, _)
RuleListErrors(rules, priorities) ==
    IF rules = <<>> THEN <<>>
    ELSE LET rule == Head(rules)
         IN  MissingFieldErrors(rule) \o PriorityErrors(rule, priorities)
             \o PatternErrors(rule) \o MappingErrors(rule)
             \o RuleListErrors(Tail(rules), SeenPriorities(rule, priorities))

\* any(rule.get('priority', 999) <= 10 for rule in rules)
has_fallback(rules) ==
    \E i \in 1..Len(rules) : "priority" \in DOMAIN rules[i] /\ rules[i].priority <= 10

validate_rules(doc) ==
    IF "rules" \notin DOMAIN doc THEN <<"missing_rules_section">>
    ELSE LET version_errors ==
                 IF "version" \notin DOMAIN doc THEN <<"missing_version">> ELSE <<>>
         IN  IF doc.rules = <<>> THEN version_errors \o <<"rules_empty">>
             ELSE version_errors \o RuleListErrors(doc.rules, {})
                  \o (IF has_fallback(doc.rules) THEN <<>> ELSE <<"no_fallback">>)

\* RuleManager.load_rules for the rule file the mapper reads
load_rules == [version |-> "1.0", rules |-> rules_file]

\* The match test of RuleManager.test_campaign_mapping: pattern_type is compared as
\* written, a regex that does not compile skips the rule.
TestMatches(campaign_name, rule) ==
    CASE rule.pattern_type = "exact" -> lower(campaign_name) = lower(rule.pattern_value)
      [] rule.pattern_type = "contains" ->
             contains(lower(campaign_name), lower(rule.pattern_value))
      [] rule.pattern_type = "starts_with" ->
             startswith(lower(campaign_name), lower(rule.pattern_value))
      [] rule.pattern_type = "ends_with" ->
             endswith(lower(campaign_name), lower(rule.pattern_value))
      [] rule.pattern_type = "regex" ->
             /\ RegexCompiles(rule.pattern_value)
             /\ RegexSearch(rule.pattern_value, campaign_name)
      [] OTHER -> FALSE

\* if value != 'inherit': final_mapping[field] = value
TestApplyRule(final_mapping, rule) ==
    [f \in Fields |->
        IF rule.mapping[f] # "inherit" THEN rule.mapping[f] ELSE final_mapping[f]]

\* The loop of test_campaign_mapping over the sorted rules
RECURSIVE TestApplyRules(_, _, _, _)
TestApplyRules(campaign_name, rules, final_mapping, matched_rules) ==
    IF rules = <<>>
    THEN [final_mapping |-> final_mapping, matched_rules |-> matched_rules,
          confidence |-> IF matched_rules # <<>>
                         THEN Min(10, Len(matched_rules) * 3) ELSE 1]
    ELSE IF Head(rules).active /\ TestMatches(campaign_name, Head(rules))
         THEN TestApplyRules(campaign_name, Tail(rules),
                             TestApplyRule(final_mapping, Head(rules)),
                             Append(matched_rules, Head(rules).name))
         ELSE TestApplyRules(campaign_name, Tail(rules), final_mapping, matched_rules)

\* RuleManager.test_campaign_mapping (the `manage_rules test` command)
test_campaign_mapping(campaign_name) ==
    TestApplyRules(campaign_name, SortByPriority(load_rules.rules), default_hierarchy, <<>>)

\* ---------------------------------------------------------------- mapper specification
\* No call of get_mapping_confidence or validate_rules is under way
\* No sync has run, no upsert is in progress, the mapper has loaded nothing.
PipeIdle ==
    /\ sync_history = <<>>
    /\ current_sync_id = 0
    /\ upsert_pc = [pc |-> "idle"]
    /\ cached_rules = <<>>
    /\ cache_timestamp = 0
    /\ yaml_mtime = 0
    /\ load_pc = [pc |-> "idle"]

ToolIdle ==
    /\ conf_in = [mapping |-> default_hierarchy, matched_rules |-> <<>>]
    /\ conf_out = <<>>
    /\ rules_data = [rules |-> <<>>]
    /\ errors = <<>>

MapperIdle ==
    /\ campaign_hierarchy = {}
    /\ overrides = <<>>
    /\ now = 0
    /\ dirty = FALSE
    /\ last = [op |-> "none"]
    /\ set_calls = [c \in {1, 2} |-> 0]
    /\ committed = <<>>
    /\ wtxn = [pc |-> "idle"]
    /\ rseen = <<>>
    /\ PipeIdle

InitMap ==
    /\ rules_file \in RuleFiles
    /\ hierarchy_rules \in {<<>>, insert_default_hierarchy_rules}
    /\ map_name \in CampaignNames
    /\ map_result = <<>>
    /\ MapperIdle
    /\ ToolIdle

\* HierarchyMapper.map_campaign: one resolution of one name
map_campaign ==
    /\ map_result = <<>>
    /\ map_result' = <<apply_mapping_rules(map_name)>>
    /\ UNCHANGED <<rules_file, hierarchy_rules, map_name>>
    /\ UNCHANGED dbVars
    /\ UNCHANGED concVars
    /\ UNCHANGED pipeVars
    /\ UNCHANGED toolVars

\* The row add_hierarchy_rule inserts for a rule of the document
RuleRow(rule) ==
    [rule_name |-> rule.name, pattern_type |-> rule.pattern_type,
     pattern_value |-> rule.pattern_value,
     network |-> rule.mapping.network, domain |-> rule.mapping.domain,
     placement |-> rule.mapping.placement, targeting |-> rule.mapping.targeting,
     special |-> rule.mapping.special,
     priority |-> rule.priority, is_active |-> TRUE]

\* The table after DELETE FROM hierarchy_rules and one add_hierarchy_rule for each
\* active rule of the document
ReloadedRules(rules) ==
    LET active_rules == SelectSeq(rules, IsActiveRule)
    IN  [i \in 1..Len(active_rules) |-> RuleRow(active_rules[i])]

\* RuleManager.reload_to_database: validate the rule file; with errors return False
\* before the table is touched, otherwise replace the rows of hierarchy_rules.  It
\* runs before the resolution whose result the state records.
reload_to_database ==
    /\ map_result = <<>>
    /\ IF validate_rules(load_rules) # <<>>
       THEN /\ UNCHANGED hierarchy_rules
            /\ last' = [op |-> "reload_to_database", ret |-> FALSE,
                        rows_before |-> hierarchy_rules]
       ELSE /\ hierarchy_rules' = ReloadedRules(load_rules.rules)
            /\ last' = [op |-> "reload_to_database", ret |-> TRUE,
                        rows_before |-> hierarchy_rules]
    /\ UNCHANGED <<rules_file, map_name, map_result>>
    /\ UNCHANGED <<campaign_hierarchy, overrides, now, dirty, set_calls>>
    /\ UNCHANGED concVars
    /\ UNCHANGED pipeVars
    /\ UNCHANGED toolVars

NextMap ==
    \/ map_campaign
    \/ reload_to_database

SpecMap == InitMap /\ [][NextMap]_vars

\* ---------------------------------------------------------------- validation specification
\* Rule entries of the documents handed to validate_rules: a platform rule, a second
\* rule of its priority, a rule whose regex does not compile, a rule without its
\* 'active' key, a fallback rule and a fallback rule that is switched off.
ValidationPool ==
    { Rule("pornhub", 1000, "starts_with", <<"p", "h">>,
           Hier("Pornhub", "Adult Video Platform", "inherit", "inherit", "inherit"), TRUE),
      Rule("brazzers", 1000, "contains", <<"b">>,
           Hier("Brazzers", "Adult Video Platform", "inherit", "inherit", "inherit"), TRUE),
      Rule("bad_regex", 400, "regex", <<"(">>,
           Hier("Broken", "Broken", "Broken", "Broken", "Broken"), TRUE),
      [name |-> "no_active_key", priority |-> 900, pattern_type |-> "contains",
       pattern_value |-> <<"x">>,
       mapping |-> Hier("Google", "Search Network", "inherit", "inherit", "inherit")],
      Rule("fallback", 10, "regex", <<".", "*">>,
           Hier("Unknown", "Unknown Network", "Unknown", "Unknown", "Standard"), TRUE),
      Rule("old_fallback", 5, "regex", <<".", "*">>,
           Hier("Unknown", "Unknown Network", "Unknown", "Unknown", "Standard"), FALSE) }

RuleLists ==
    { f \in UNION { [1..n -> ValidationPool] : n \in 0..MaxRules } :
         \A i, j \in DOMAIN f : i # j => f[i] # f[j] }

\* Documents with and without their 'version' key, and one without 'rules'
Documents ==
    { [version |-> "1.0", rules |-> rs] : rs \in RuleLists }
    \cup { [rules |-> rs] : rs \in RuleLists }
    \cup { [version |-> "1.0"] }

InitValidate ==
    /\ rules_data \in Documents
    /\ errors = <<>>
    /\ conf_in = [mapping |-> default_hierarchy, matched_rules |-> <<>>]
    /\ conf_out = <<>>
    /\ rules_file = DeployedRules
    /\ hierarchy_rules = insert_default_hierarchy_rules
    /\ map_name = <<>>
    /\ map_result = <<>>
    /\ MapperIdle

\* One call of RuleManager.validate_rules(rules_data)
call_validate_rules ==
    /\ errors = <<>>
    /\ errors' = <<validate_rules(rules_data)>>
    /\ UNCHANGED <<conf_in, conf_out, rules_data>>
    /\ UNCHANGED dbVars
    /\ UNCHANGED mapVars
    /\ UNCHANGED concVars
    /\ UNCHANGED pipeVars

NextValidate == call_validate_rules

SpecValidate == InitValidate /\ [][NextValidate]_vars

\* ---------------------------------------------------------------- confidence specification
\* Entries of matched_rules as apply_mapping_rules appends them
MatchedPool ==
    { [name |-> "edge", priority |-> 900, pattern_type |-> "contains",
       pattern_value |-> <<"h">>],
      [name |-> "exact_low", priority |-> 100, pattern_type |-> "exact",
       pattern_value |-> <<"P", "h">>],
      [name |-> "low", priority |-> 10, pattern_type |-> "regex",
       pattern_value |-> <<".", "*">>] }

MatchedLists == UNION { [1..n -> MatchedPool] : n \in 0..MaxMatched }

\* Final mappings with four, three, two and no field holding an "Unknown" value
MappingInputs ==
    { default_hierarchy,
      Hier("Pornhub", "Unknown Network", "Unknown", "Unknown", "Standard"),
      Hier("Google", "Search Network", "Unknown", "Unknown", "Intent"),
      Hier("Google", "Search Network", "Text", "Search Users", "Intent") }

InitConf ==
    /\ conf_in \in [mapping : MappingInputs, matched_rules : MatchedLists]
    /\ conf_out = <<>>
    /\ rules_data = [rules |-> <<>>]
    /\ errors = <<>>
    /\ rules_file \in {<<>>, DeployedRules}
    /\ hierarchy_rules = <<>>
    /\ map_name \in {<<"x", "g">>, <<"p", "h", "x">>}
    /\ map_result = <<>>
    /\ MapperIdle

\* One call of HierarchyMapper.get_mapping_confidence
call_get_mapping_confidence ==
    /\ conf_out = <<>>
    /\ conf_out' = <<get_mapping_confidence(conf_in.mapping, conf_in.matched_rules)>>
    /\ UNCHANGED <<conf_in, rules_data, errors>>
    /\ UNCHANGED dbVars
    /\ UNCHANGED mapVars
    /\ UNCHANGED concVars
    /\ UNCHANGED pipeVars

NextConf ==
    \/ call_get_mapping_confidence
    \/ map_campaign

SpecConf == InitConf /\ [][NextConf]_vars

\* ---------------------------------------------------------------- tables
\* The campaigns table holds two campaigns; every statement modelled here is keyed
\* by campaign_id.
Campaigns == {1, 2}

\* campaigns.name of each campaign of the campaigns table
CampaignName(c) ==
    CASE c = 1 -> <<"P", "h", "x">>
      [] c = 2 -> <<"x", "g">>
      [] OTHER -> <<"h", "G">>

\* Mutant: the is_active test is left out of the WHERE clause.
ActiveOverrides_AnyRow(tbl, c) ==
    { i \in 1..Len(tbl) : tbl[i].campaign_id = c }

\* Row indexes of the active overrides of a campaign:
\* WHERE campaign_id = ? AND is_active = 1
ActiveOverrides(tbl, c) ==
    { i \in 1..Len(tbl) : tbl[i].campaign_id = c /\ tbl[i].is_active }

\* ... ORDER BY overridden_at DESC LIMIT 1, as zero or one row.  Rows of equal
\* overridden_at come in rowid order.
SelectActiveOverride(tbl, c) ==
    IF ActiveOverrides(tbl, c) = {} THEN <<>>
    ELSE LET i == CHOOSE k \in ActiveOverrides(tbl, c) :
                     \A m \in ActiveOverrides(tbl, c) :
                         \/ tbl[k].overridden_at > tbl[m].overridden_at
                         \/ tbl[k].overridden_at = tbl[m].overridden_at /\ k <= m
         IN  <<tbl[i]>>

\* DatabaseOperations.get_hierarchy_override
get_hierarchy_override(c) == SelectActiveOverride(overrides, c)

\* Mutant: the UPDATE is left out, earlier overrides stay active.
DeactivateOverrides_Skipped(tbl, c) == tbl

\* UPDATE campaign_hierarchy_overrides SET is_active = 0
\* WHERE campaign_id = ? AND is_active = 1
DeactivateOverrides(tbl, c) ==
    [i \in 1..Len(tbl) |->
        IF tbl[i].campaign_id = c /\ tbl[i].is_active
        THEN [tbl[i] EXCEPT !.is_active = FALSE] ELSE tbl[i]]

\* INSERT INTO campaign_hierarchy_overrides (...) VALUES (..., 1)
InsertOverride(tbl, c, fields, reason, by, at) ==
    Append(tbl, [campaign_id |-> c,
                 network |-> fields.network, domain |-> fields.domain,
                 placement |-> fields.placement, targeting |-> fields.targeting,
                 special |-> fields.special,
                 override_reason |-> reason, overridden_by |-> by,
                 overridden_at |-> at, is_active |-> TRUE])

\* SELECT * FROM campaign_hierarchy WHERE campaign_id = ?
HierarchyRows(c) == { r \in campaign_hierarchy : r.campaign_id = c }

HierarchyRow(c, name, fields, confidence) ==
    [campaign_id |-> c, campaign_name |-> name,
     network |-> fields.network, domain |-> fields.domain,
     placement |-> fields.placement, targeting |-> fields.targeting,
     special |-> fields.special, mapping_confidence |-> confidence]

\* Mutant: INSERT OR IGNORE, the row in conflict stays and the new one is dropped.
InsertOrReplace_Ignore(tbl, row) ==
    IF \E r \in tbl : r.campaign_id = row.campaign_id THEN tbl ELSE tbl \cup {row}

\* INSERT OR REPLACE INTO campaign_hierarchy: UNIQUE(campaign_id) removes the row
\* in conflict before the new one is inserted.
InsertOrReplace(tbl, row) ==
    { r \in tbl : r.campaign_id # row.campaign_id } \cup {row}

\* Python: a or b, on optional texts
PyOr(a, b) == IF Truthy(a) THEN a ELSE b

\* Mutant: without an override the confidence written is the mean of the stored and
\* the passed one, so a second identical call moves it again.
MergedRow_AveragingConfidence(override, hierarchy_data) ==
    LET passed == IF "mapping_confidence" \in DOMAIN hierarchy_data
                  THEN hierarchy_data.mapping_confidence ELSE 10
        stored == { r \in campaign_hierarchy : r.campaign_id = hierarchy_data.campaign_id }
        confidence == IF override # <<>> THEN 10
                      ELSE IF stored = {} THEN passed
                      ELSE ((CHOOSE r \in stored : TRUE).mapping_confidence + passed) \div 2
    IN  HierarchyRow(hierarchy_data.campaign_id, hierarchy_data.campaign_name,
                     [f \in Fields |->
                         IF override # <<>> THEN PyOr(override[1][f], hierarchy_data[f])
                         ELSE hierarchy_data[f]],
                     confidence)

\* upsert_campaign_hierarchy: the values it writes, given the override it found
\* (zero or one row) and the rule-based hierarchy_data.
MergedRow(override, hierarchy_data) ==
    IF override # <<>>
    THEN HierarchyRow(hierarchy_data.campaign_id, hierarchy_data.campaign_name,
                      [f \in Fields |-> PyOr(override[1][f], hierarchy_data[f])], 10)
    ELSE HierarchyRow(hierarchy_data.campaign_id, hierarchy_data.campaign_name,
                      [f \in Fields |-> hierarchy_data[f]],
                      IF "mapping_confidence" \in DOMAIN hierarchy_data
                      THEN hierarchy_data.mapping_confidence ELSE 10)

\* The table after upsert_campaign_hierarchy(hierarchy_data)
UpsertedHierarchy(tbl, hierarchy_data) ==
    InsertOrReplace(tbl,
        MergedRow(SelectActiveOverride(overrides, hierarchy_data.campaign_id),
                  hierarchy_data))

\* DatabaseOperations.get_hierarchy_override_history: SELECT ... WHERE campaign_id = ?
\* ORDER BY overridden_at DESC LIMIT ?.  SQL leaves the order of rows of equal
\* overridden_at open, so the operator gives every list the statement may return.
HistoryOrders(tbl, c) ==
    LET rows == { i \in 1..Len(tbl) : tbl[i].campaign_id = c }
        n == Cardinality(rows)
    IN  { p \in [1..n -> rows] :
            /\ \A i, j \in 1..n : i # j => p[i] # p[j]
            /\ \A i \in 1..n : \A j \in (i + 1)..n :
                   tbl[p[i]].overridden_at >= tbl[p[j]].overridden_at }

get_hierarchy_override_history(c, limit) ==
    { [i \in 1..(IF limit < Len(p) THEN limit ELSE Len(p)) |->
          [rowid |-> p[i], row |-> overrides[p[i]]]] : p \in HistoryOrders(overrides, c) }

\* DatabaseOperations.get_merged_hierarchy: None (<<>>) without a campaign_hierarchy
\* row, otherwise the row with the override's truthy fields and the override's
\* metadata.
get_merged_hierarchy(c) ==
    IF HierarchyRows(c) = {} THEN <<>>
    ELSE LET base == CHOOSE r \in HierarchyRows(c) : TRUE
             override == get_hierarchy_override(c)
         IN  IF override # <<>>
             THEN <<[campaign_id |-> c,
                     network |-> IF Truthy(override[1].network)
                                 THEN override[1].network ELSE base.network,
                     domain |-> IF Truthy(override[1].domain)
                                THEN override[1].domain ELSE base.domain,
                     placement |-> IF Truthy(override[1].placement)
                                   THEN override[1].placement ELSE base.placement,
                     targeting |-> IF Truthy(override[1].targeting)
                                   THEN override[1].targeting ELSE base.targeting,
                     special |-> IF Truthy(override[1].special)
                                 THEN override[1].special ELSE base.special,
                     mapping_confidence |-> base.mapping_confidence,
                     has_override |-> TRUE,
                     override_reason |-> override[1].override_reason,
                     overridden_by |-> override[1].overridden_by,
                     overridden_at |-> override[1].overridden_at]>>
             ELSE <<[campaign_id |-> c,
                     network |-> base.network, domain |-> base.domain,
                     placement |-> base.placement, targeting |-> base.targeting,
                     special |-> base.special,
                     mapping_confidence |-> base.mapping_confidence,
                     has_override |-> FALSE]>>

\* ---------------------------------------------------------------- CSV input
\* str.strip() and str.lower() of a cell, for the cells that occur
StripText(v) ==
    CASE v = " " -> ""
      [] v = " Aylo " -> "Aylo"
      [] OTHER -> v

LowerText(v) ==
    CASE v = "None" -> "none"
      [] OTHER -> v

\* clean_field of the import scripts
clean_field(value, default) ==
    IF ~Truthy(value) THEN default
    ELSE IF LowerText(StripText(value)) = "none" THEN default
         ELSE StripText(value)

\* str.strip() of a name
RECURSIVE StripLeft(_)
StripLeft(s) == IF s # <<>> /\ Head(s) = " " THEN StripLeft(Tail(s)) ELSE s

RECURSIVE StripRight(_)
StripRight(s) ==
    IF s # <<>> /\ s[Len(s)] = " " THEN StripRight(SubSeq(s, 1, Len(s) - 1)) ELSE s

strip(s) == StripRight(StripLeft(s))

CsvRow(name, n, d, p, t, sp) ==
    [campaign_name |-> name, network |-> n, domain |-> d, placement |-> p,
     targeting |-> t, special |-> sp]

\* The rows of the CSV files: a row for campaign 1, a second row for campaign 1
\* with other values, a row for campaign 2 in another case with a blank network
\* cell, a row for no campaign, a row without name.
RowAylo == CsvRow(<<"P", "h", "x">>, " Aylo ", "", "None", "", "")
RowAgain == CsvRow(<<"p", "h", "x">>, "Brazzers", "Tube", "", "", "")
RowBlank == CsvRow(<<"X", "G", " ">>, " ", "Dating Platform", "none", "Geo", "Premium")
RowNoCampaign == CsvRow(<<"z">>, "Aylo", "", "", "", "")
RowNoName == CsvRow(<<>>, "Aylo", "", "", "", "")

\* The CSV files handed to the import scripts
CsvFiles ==
    { <<>>,
      <<RowAylo>>,
      <<RowNoCampaign, RowAylo>>,
      <<RowAylo, RowBlank>>,
      <<RowAylo, RowAgain>>,
      <<RowNoName, RowBlank>> }

\* load_csv_hierarchy of import_hierarchy_overrides.py: rows without campaign_name
\* are skipped, cells are cleaned.
RECURSIVE load_csv_hierarchy(_)
load_csv_hierarchy(csv) ==
    IF csv = <<>> THEN <<>>
    ELSE LET row == Head(csv)
             record == [campaign_name |-> strip(row.campaign_name),
                        network |-> clean_field(row.network, "Unknown"),
                        domain |-> clean_field(row.domain, "Unknown"),
                        placement |-> clean_field(row.placement, "Unknown"),
                        targeting |-> clean_field(row.targeting, "Unknown"),
                        special |-> clean_field(row.special, "Standard")]
         IN  IF row.campaign_name = <<>>
             THEN load_csv_hierarchy(Tail(csv))
             ELSE <<record>> \o load_csv_hierarchy(Tail(csv))

\* db_lookup of match_campaigns_to_database: the campaigns of a lowered, stripped name
DbLookup(name_lower) ==
    { c \in Campaigns : strip(lower(CampaignName(c))) = name_lower }

\* match_campaigns_to_database
RECURSIVE match_campaigns_to_database(_)
match_campaigns_to_database(csv_records) ==
    IF csv_records = <<>> THEN [matched |-> <<>>, not_found |-> <<>>]
    ELSE LET record == Head(csv_records)
             key == strip(lower(record.campaign_name))
             rest == match_campaigns_to_database(Tail(csv_records))
         IN  IF DbLookup(key) # {}
             THEN LET c == CHOOSE c \in DbLookup(key) : TRUE
                  IN  [rest EXCEPT !.matched =
                          <<[db_campaign_id |-> c, campaign_name |-> CampaignName(c),
                             network |-> record.network, domain |-> record.domain,
                             placement |-> record.placement,
                             targeting |-> record.targeting,
                             special |-> record.special]>> \o @]
             ELSE [rest EXCEPT !.not_found = <<record.campaign_name>> \o @]

\* The loop of import_to_overrides_table over the matched records, all stamped with
\* one timestamp: deactivate, insert the override, replace the hierarchy row.
RECURSIVE ImportRecords(_, _, _, _)
ImportRecords(records, ovr, hier, timestamp) ==
    IF records = <<>> THEN [overrides |-> ovr, campaign_hierarchy |-> hier]
    ELSE LET record == Head(records)
             c == record.db_campaign_id
         IN  ImportRecords(Tail(records),
                 InsertOverride(DeactivateOverrides(ovr, c), c, record,
                                "CSV hierarchy import", "CSV Import", timestamp),
                 InsertOrReplace(hier, HierarchyRow(c, record.campaign_name, record, 10)),
                 timestamp)

\* ---------------------------------------------------------------- name-based import
\* str.replace('  ', ' ')
RECURSIVE ReplaceDoubleSpace(_)
ReplaceDoubleSpace(s) ==
    IF Len(s) < 2 THEN s
    ELSE IF s[1] = " " /\ s[2] = " "
         THEN <<" ">> \o ReplaceDoubleSpace(SubSeq(s, 3, Len(s)))
         ELSE <<s[1]>> \o ReplaceDoubleSpace(Tail(s))

\* normalize_name of scripts/import_hierarchy_by_name.py
normalize_name(name) == ReplaceDoubleSpace(strip(lower(name)))

\* get_close_matches(normalized_csv, all_names, n=1, cutoff=0.85): difflib's ratio is
\* 2*M/T for M matching characters out of T in both names.  Two different names of
\* at most three characters share at most two, so their ratio is at most 0.8: of the
\* names that occur, only a name itself is close enough.
get_close_matches(normalized_csv) ==
    { c \in Campaigns : normalize_name(CampaignName(c)) = normalized_csv }

\* NameBasedHierarchyImporter.find_campaign_by_name, as zero or one campaign id
find_campaign_by_name(csv_name) ==
    LET exact == { c \in Campaigns : normalize_name(CampaignName(c)) = normalize_name(csv_name) }
    IN  IF exact # {} THEN <<CHOOSE c \in exact : TRUE>>
        ELSE IF get_close_matches(normalize_name(csv_name)) # {}
             THEN <<CHOOSE c \in get_close_matches(normalize_name(csv_name)) : TRUE>>
             ELSE <<>>

\* The loop of NameBasedHierarchyImporter.parse_csv over the rows it reads
RECURSIVE ParseRows(_)
ParseRows(rows) ==
    IF rows = <<>> THEN <<>>
    ELSE LET row == Head(rows)
             campaign_name == strip(row.campaign_name)
             found == find_campaign_by_name(campaign_name)
             hierarchy == [db_id |-> found[1], db_name |-> CampaignName(found[1]),
                           network |-> clean_field(row.network, "Unknown"),
                           domain |-> clean_field(row.domain, "Unknown"),
                           placement |-> clean_field(row.placement, "Standard"),
                           targeting |-> clean_field(row.targeting, "General"),
                           special |-> clean_field(row.special, "Standard"),
                           match_type |->
                               IF normalize_name(campaign_name)
                                      = normalize_name(CampaignName(found[1]))
                               THEN "exact" ELSE "fuzzy"]
         IN  IF campaign_name = <<>> \/ found = <<>>
             THEN ParseRows(Tail(rows))
             ELSE <<hierarchy>> \o ParseRows(Tail(rows))

\* NameBasedHierarchyImporter.parse_csv: the reader's first data row is skipped
\* ("row 2 which is empty") before the loop.
parse_csv(csv) == IF csv = <<>> THEN <<>> ELSE ParseRows(Tail(csv))

\* NameBasedHierarchyImporter.import_to_database: the rows it writes
RECURSIVE import_to_database(_, _)
import_to_database(hier, mappings) ==
    IF mappings = <<>> THEN hier
    ELSE LET mapping == Head(mappings)
         IN  import_to_database(
                 InsertOrReplace(hier,
                     HierarchyRow(mapping.db_id, mapping.db_name, mapping,
                                  IF mapping.match_type = "exact" THEN 10 ELSE 9)),
                 Tail(mappings))

\* ---------------------------------------------------------------- operation inputs
HierarchyData(c, fields, confidence) ==
    [campaign_id |-> c, campaign_name |-> CampaignName(c),
     network |-> fields.network, domain |-> fields.domain,
     placement |-> fields.placement, targeting |-> fields.targeting,
     special |-> fields.special, mapping_confidence |-> confidence]

HierarchyDataNoConfidence(c, fields) ==
    [campaign_id |-> c, campaign_name |-> CampaignName(c),
     network |-> fields.network, domain |-> fields.domain,
     placement |-> fields.placement, targeting |-> fields.targeting,
     special |-> fields.special]

\* hierarchy_data a caller hands to upsert_campaign_hierarchy: the dictionary of
\* test_override_persistence.py, and a mapping without the mapping_confidence key.
HierarchyInputs(c) ==
    { HierarchyData(c, Hier("Unknown", "Test Domain", "Test Placement",
                            "Test Targeting", "Test Special"), 5),
      HierarchyDataNoConfidence(c, Hier("Google", "Search Network", "Text",
                                        "Search Users", "Intent")) }

\* The five optional fields of a manual override: the network alone, and a form
\* submitted with the network as empty text and the domain filled in.
OverrideFieldInputs ==
    { Hier("Aylo", NULL, NULL, NULL, NULL),
      Hier("", "Dating Platform", NULL, NULL, NULL) }

OverrideData(c, fields, with_author) ==
    IF with_author
    THEN [campaign_id |-> c, network |-> fields.network, domain |-> fields.domain,
          placement |-> fields.placement, targeting |-> fields.targeting,
          special |-> fields.special, overridden_by |-> "analyst"]
    ELSE [campaign_id |-> c, network |-> fields.network, domain |-> fields.domain,
          placement |-> fields.placement, targeting |-> fields.targeting,
          special |-> fields.special]

\* ---------------------------------------------------------------- operations
\* Mapper and two-connection variables do not move in the single-connection model.
Frame ==
    UNCHANGED mapVars /\ UNCHANGED concVars /\ UNCHANGED toolVars /\ UNCHANGED pipeVars

\* DatabaseOperations.upsert_campaign_hierarchy
upsert_campaign_hierarchy(hierarchy_data) ==
    /\ campaign_hierarchy' = UpsertedHierarchy(campaign_hierarchy, hierarchy_data)
    /\ dirty' = FALSE
    /\ last' = [op |-> "upsert_campaign_hierarchy",
                campaign_id |-> hierarchy_data.campaign_id,
                hierarchy_data |-> hierarchy_data,
                again |-> /\ last.op = "upsert_campaign_hierarchy"
                          /\ last.hierarchy_data = hierarchy_data]
    /\ UNCHANGED <<overrides, now, set_calls>>
    /\ Frame

\* DatabaseOperations.upsert_hierarchy_override.  The UPDATE runs first; building the
\* INSERT's parameters raises KeyError when override_data has no 'overridden_by',
\* and then neither the INSERT nor the commit is reached.
upsert_hierarchy_override(override_data) ==
    LET c == override_data.campaign_id
        deactivated == DeactivateOverrides(overrides, c)
    IN  IF "overridden_by" \in DOMAIN override_data
        THEN /\ Len(overrides) < MaxOverrides
             /\ overrides' = InsertOverride(deactivated, c, override_data,
                                            "Manual correction",
                                            override_data.overridden_by, now)
             /\ now' = now + 1
             /\ dirty' = FALSE
             /\ set_calls' = [set_calls EXCEPT ![c] = @ + 1]
             /\ last' = [op |-> "upsert_hierarchy_override", campaign_id |-> c,
                         override_data |-> override_data, raised |-> FALSE]
             /\ UNCHANGED campaign_hierarchy
             /\ Frame
        ELSE /\ overrides' = deactivated
             /\ dirty' = TRUE
             /\ last' = [op |-> "upsert_hierarchy_override", campaign_id |-> c,
                         override_data |-> override_data, raised |-> TRUE,
                         active_before |-> ActiveOverrides(overrides, c)]
             /\ UNCHANGED <<campaign_hierarchy, now, set_calls>>
             /\ Frame

\* Mutant: the call reports success whatever the UPDATE changed.
DeleteReturn_AlwaysTrue(tbl, c) == TRUE

\* return cursor.rowcount > 0, for the UPDATE of delete_hierarchy_override
DeleteReturn(tbl, c) == Cardinality(ActiveOverrides(tbl, c)) > 0

\* DatabaseOperations.delete_hierarchy_override
delete_hierarchy_override(c) ==
    /\ overrides' = DeactivateOverrides(overrides, c)
    /\ dirty' = FALSE
    /\ last' = [op |-> "delete_hierarchy_override", campaign_id |-> c,
                ret |-> DeleteReturn(overrides, c)]
    /\ UNCHANGED <<campaign_hierarchy, now, set_calls>>
    /\ Frame

\* How many of the records are for campaign c
RECURSIVE CountFor(_, _)
CountFor(records, c) ==
    IF records = <<>> THEN 0
    ELSE (IF Head(records).db_campaign_id = c THEN 1 ELSE 0) + CountFor(Tail(records), c)

\* import_hierarchy_overrides.py, main: load the CSV, match by name, import the
\* matches on a connection of its own and commit once.  While another connection
\* holds uncommitted writes the database is locked: every record's statements raise,
\* the error is counted and nothing is written.
import_hierarchy_overrides(csv) ==
    \E match_results \in {match_campaigns_to_database(load_csv_hierarchy(csv))} :
    \E matched \in {match_results.matched} :
    \E counts \in {[rows |-> Len(csv), matched |-> Len(matched),
                     not_found |-> Len(match_results.not_found)]} :
        /\ Len(overrides) + Len(matched) <= MaxOverrides
        /\ IF matched = <<>>
           THEN /\ last' = [op |-> "import_hierarchy_overrides", counts |-> counts,
                            imported |-> 0, errors |-> 0]
                /\ UNCHANGED <<campaign_hierarchy, overrides, now, set_calls>>
           ELSE IF dirty
                THEN /\ last' = [op |-> "import_hierarchy_overrides", counts |-> counts,
                                 imported |-> 0, errors |-> Len(matched)]
                     /\ UNCHANGED <<campaign_hierarchy, overrides, now, set_calls>>
                ELSE \E done \in {ImportRecords(matched, overrides, campaign_hierarchy, now)} :
                     /\ overrides' = done.overrides
                     /\ campaign_hierarchy' = done.campaign_hierarchy
                     /\ now' = now + 1
                     /\ set_calls' = [c \in Campaigns |-> set_calls[c] + CountFor(matched, c)]
                     /\ last' = [op |-> "import_hierarchy_overrides", counts |-> counts,
                                 imported |-> Len(matched), errors |-> 0]
        /\ UNCHANGED dirty
        /\ Frame

\* scripts/import_hierarchy_by_name.py, run: parse the CSV, write the matches to
\* campaign_hierarchy on a connection of its own and commit once.
import_hierarchy_by_name(csv) ==
    \E mappings \in {parse_csv(csv)} :
        /\ IF dirty
           THEN UNCHANGED campaign_hierarchy
           ELSE campaign_hierarchy' = import_to_database(campaign_hierarchy, mappings)
        /\ last' = [op |-> "import_hierarchy_by_name",
                    written |-> IF dirty THEN {}
                                ELSE { mappings[i].db_id : i \in 1..Len(mappings) }]
        /\ UNCHANGED <<overrides, now, dirty, set_calls>>
        /\ Frame

\* The campaigns get_campaigns returns (ORDER BY name; the order does not matter to
\* what is stored, each campaign has its own row)
CampaignList == <<1, 2>>

\* HierarchyMapper.map_campaign, as the hierarchy_data process_hierarchy_mapping builds
MappedHierarchyData(c) ==
    LET result == apply_mapping_rules(CampaignName(c))
    IN  HierarchyData(c, result.mapping, result.confidence)

\* What map_campaign returns for each campaign of the list when it does not raise
RECURSIVE MapCampaigns(_)
MapCampaigns(cs) ==
    IF cs = <<>> THEN <<>>
    ELSE <<MappedHierarchyData(Head(cs))>> \o MapCampaigns(Tail(cs))

\* HierarchyMapper.map_campaigns_batch: one result per campaign name, in order; a
\* campaign whose map_campaign raised gets a result with the key 'error'.
map_campaigns_batch(results, map_failed) ==
    [i \in 1..Len(results) |->
        IF results[i].campaign_id \in map_failed
        THEN [campaign_id |-> results[i].campaign_id, error |-> TRUE]
        ELSE results[i]]

\* Mutant: the first failure ends the loop, the campaigns after it are not attempted.
RECURSIVE StoreMappings_AbortOnFailure(_, _, _)
StoreMappings_AbortOnFailure(hier, results, store_failed) ==
    IF results = <<>> THEN [campaign_hierarchy |-> hier, mapped |-> 0, errors |-> 0]
    ELSE LET result == Head(results)
         IN  IF "error" \in DOMAIN result \/ result.campaign_id \in store_failed
             THEN [campaign_hierarchy |-> hier, mapped |-> 0, errors |-> 1]
             ELSE LET rest == StoreMappings_AbortOnFailure(
                                  UpsertedHierarchy(hier, result), Tail(results), store_failed)
                  IN  [rest EXCEPT !.mapped = @ + 1]

\* The loop of process_hierarchy_mapping over the mapping results: a result with
\* the key 'error' is counted and skipped, an upsert that raises is counted, every
\* other result is stored; the loop goes on to the next result in each case.
RECURSIVE StoreMappings(_, _, _)
StoreMappings(hier, results, store_failed) ==
    IF results = <<>> THEN [campaign_hierarchy |-> hier, mapped |-> 0, errors |-> 0]
    ELSE LET result == Head(results)
         IN  IF "error" \in DOMAIN result \/ result.campaign_id \in store_failed
             THEN LET rest == StoreMappings(hier, Tail(results), store_failed)
                  IN  [rest EXCEPT !.errors = @ + 1]
             ELSE LET rest == StoreMappings(UpsertedHierarchy(hier, result),
                                            Tail(results), store_failed)
                  IN  [rest EXCEPT !.mapped = @ + 1]

\* ETLPipeline.process_hierarchy_mapping: map every campaign get_campaigns returns,
\* upsert every mapping.  Of the campaigns in failing, map_campaign raises for those
\* of map_failed and upsert_campaign_hierarchy for those of store_failed (an sqlite3
\* error before its commit); each successful upsert commits.
process_hierarchy_mapping(failing) ==
    \E results \in {MapCampaigns(CampaignList)} :
    \E map_failed \in SUBSET failing :
    \E store_failed \in SUBSET (failing \ map_failed) :
    \E done \in {StoreMappings(campaign_hierarchy,
                                map_campaigns_batch(results, map_failed), store_failed)} :
        /\ campaign_hierarchy' = done.campaign_hierarchy
        /\ dirty' = IF done.mapped > 0 THEN FALSE ELSE dirty
        /\ last' = [op |-> "process_hierarchy_mapping", mapped |-> done.mapped,
                    errors |-> done.errors,
                    stored |-> (Campaigns \ map_failed) \ store_failed]
        /\ UNCHANGED <<overrides, now, set_calls>>
        /\ Frame

\* ---------------------------------------------------------------- specification
Init ==
    /\ campaign_hierarchy = {}
    /\ overrides = <<>>
    /\ now = 0
    /\ dirty = FALSE
    /\ last = [op |-> "none"]
    /\ set_calls = [c \in Campaigns |-> 0]
    /\ rules_file = DeployedRules
    /\ hierarchy_rules = insert_default_hierarchy_rules
    /\ map_name = <<>>
    /\ map_result = <<>>
    /\ committed = <<>>
    /\ wtxn = [pc |-> "idle"]
    /\ rseen = <<>>
    /\ PipeIdle
    /\ ToolIdle

Next ==
    \/ \E c \in Campaigns : \E hd \in HierarchyInputs(c) : upsert_campaign_hierarchy(hd)
    \/ \E c \in Campaigns : \E fields \in OverrideFieldInputs : \E with_author \in BOOLEAN :
           upsert_hierarchy_override(OverrideData(c, fields, with_author))
    \/ \E c \in Campaigns : delete_hierarchy_override(c)
    \/ \E csv \in CsvFiles : import_hierarchy_overrides(csv)
    \/ \E csv \in CsvFiles : import_hierarchy_by_name(csv)
    \/ process_hierarchy_mapping({})

\* The deployed rules are well formed and no other connection holds the database
\* while the pass runs: no campaign of the pass fails here.  SpecSync has the
\* failing passes.
Spec == Init /\ [][Next]_vars

\* ---------------------------------------------------------------- rules that do not match
\* Rules of a hand-edited rule file: an invalid regex, a pattern_type that is not
\* one of the five, a pattern_value written as a number, and two sound rules.
MatchPool ==
    { Rule("bad_regex", 400, "regex", <<"(">>,
           Hier("Broken", "Broken", "Broken", "Broken", "Broken"), TRUE),
      Rule("bogus", 50, "fuzzy", <<"g">>,
           Hier("Bogus", "Bogus", "Bogus", "Bogus", "Bogus"), TRUE),
      Rule("year", 700, "contains", YamlInt,
           Hier("Seasonal", "inherit", "inherit", "inherit", "inherit"), TRUE),
      Rule("pornhub", 1000, "starts_with", <<"p", "h">>,
           Hier("Pornhub", "Adult Video Platform", "inherit", "inherit", "inherit"), TRUE),
      Rule("fallback", 10, "regex", <<".", "*">>,
           Hier("Unknown", "Unknown Network", "Unknown", "Unknown", "Standard"), TRUE) }

MatchRuleFiles ==
    { f \in UNION { [1..n -> MatchPool] : n \in 0..MaxRules } :
         \A i, j \in DOMAIN f : i # j => f[i] # f[j] }

InitMatch ==
    /\ rules_file \in MatchRuleFiles
    /\ hierarchy_rules = <<>>
    /\ map_name \in CampaignNames
    /\ map_result = <<>>
    /\ MapperIdle
    /\ ToolIdle

NextMatch == map_campaign

SpecMatch == InitMatch /\ [][NextMatch]_vars

\* ---------------------------------------------------------------- rule cache
\* The clock readings explored
MaxClock == 5

\* The rule file as an editor leaves it after each save: one more rule every time.
EditedRules ==
    << Rule("fallback", 10, "regex", <<".", "*">>,
            Hier("Unknown", "Unknown Network", "Unknown", "Unknown", "Standard"), TRUE),
       Rule("pornhub", 1000, "starts_with", <<"p", "h">>,
            Hier("Pornhub", "Adult Video Platform", "inherit", "inherit", "inherit"), TRUE),
       Rule("google", 100, "ends_with", <<"G">>,
            Hier("Google", "Search Network", "inherit", "inherit", "Intent"), TRUE),
       Rule("exact_ph", 950, "exact", <<"P", "h">>,
            Hier("inherit", "inherit", "Banner", "inherit", "Premium"), TRUE) >>

CacheFrame ==
    /\ UNCHANGED <<campaign_hierarchy, overrides, dirty, set_calls>>
    /\ UNCHANGED <<map_name, map_result, hierarchy_rules>>
    /\ UNCHANGED concVars
    /\ UNCHANGED toolVars
    /\ UNCHANGED <<sync_history, current_sync_id, upsert_pc>>

InitCache ==
    /\ rules_file = SubSeq(EditedRules, 1, 1)
    /\ hierarchy_rules = <<>>
    /\ map_name = <<>>
    /\ map_result = <<>>
    /\ MapperIdle
    /\ ToolIdle

\* Another process (an editor, a deployment) saves the rule file: the content
\* changes and st_mtime becomes the time of the save.
ModifyFile ==
    /\ Len(rules_file) < Len(EditedRules)
    /\ now < MaxClock
    /\ rules_file' = SubSeq(EditedRules, 1, Len(rules_file) + 1)
    /\ now' = now + 1
    /\ yaml_mtime' = now + 1
    /\ UNCHANGED <<cached_rules, cache_timestamp, load_pc, last>>
    /\ CacheFrame

\* The cache test of load_rules_from_yaml:
\* not force_reload and _cached_rules is not None and _cache_timestamp and
\* file_mtime <= _cache_timestamp
CacheHit(force_reload) ==
    /\ ~ force_reload
    /\ cached_rules # <<>>
    /\ cache_timestamp # 0
    /\ yaml_mtime <= cache_timestamp

\* load_rules_from_yaml(force_reload), up to the end of the with block: the cached
\* list is returned, or the file is opened and parsed.
LoadBegin(force_reload) ==
    /\ load_pc.pc = "idle"
    /\ IF CacheHit(force_reload)
       THEN /\ last' = [op |-> "load_rules_from_yaml", force_reload |-> force_reload,
                        ret |-> cached_rules[1], file_rules |-> load_rules_from_yaml,
                        reread |-> FALSE, cached_before |-> cached_rules]
            /\ UNCHANGED load_pc
       ELSE /\ load_pc' = [pc |-> "read", force_reload |-> force_reload,
                           rules |-> load_rules_from_yaml,
                           cached_before |-> cached_rules]
            /\ UNCHANGED last
    /\ UNCHANGED <<rules_file, now, yaml_mtime, cached_rules, cache_timestamp>>
    /\ CacheFrame

\* load_rules_from_yaml, after the file was read: the rules are cached, the cache
\* is stamped with datetime.now and the rules are returned.
LoadStore ==
    /\ load_pc.pc = "read"
    /\ now < MaxClock
    /\ cached_rules' = <<load_pc.rules>>
    /\ now' = now + 1
    /\ cache_timestamp' = now + 1
    /\ load_pc' = [pc |-> "idle"]
    /\ last' = [op |-> "load_rules_from_yaml", force_reload |-> load_pc.force_reload,
                ret |-> load_pc.rules, file_rules |-> load_pc.rules,
                reread |-> TRUE, cached_before |-> load_pc.cached_before]
    /\ UNCHANGED <<rules_file, yaml_mtime>>
    /\ CacheFrame

NextCache ==
    \/ ModifyFile
    \/ \E force_reload \in BOOLEAN : LoadBegin(force_reload)
    \/ LoadStore

SpecCache == InitCache /\ [][NextCache]_vars

\* ---------------------------------------------------------------- sync runs
\* Runs of run_full_sync explored (rows of sync_history)
MaxRuns == 2

\* DatabaseOperations.start_sync: INSERT INTO sync_history ... 'running'; the new
\* row's id is its position.
start_sync(history) == Append(history, "running")

\* status = 'failed' if error_message else 'completed'
CompleteStatus(has_error_message) ==
    IF has_error_message THEN "failed" ELSE "completed"

\* DatabaseOperations.complete_sync: UPDATE sync_history SET status = ? WHERE id = ?
complete_sync(history, sync_id, has_error_message) ==
    [history EXCEPT ![sync_id] = CompleteStatus(has_error_message)]

AllSteps == {"sync_campaigns", "sync_hourly_metrics", "process_hierarchy_mapping",
             "validate_data_quality", "run_sync_integrity_checks"}

\* ETLPipeline.run_full_sync().  start_raises: start_sync raises (the database is
\* locked); campaigns_fetch_fails and metrics_fetch_fails: the API client raises;
\* map_failed and store_failed as in process_hierarchy_mapping.  The API returns
\* the campaigns of the campaigns table.
\*  - start_sync raising leaves current_sync_id as the earlier run left it, and the
\*    except branch completes that row as failed;
\*  - sync_campaigns re-raises a failed fetch: the except branch ends the run;
\*  - sync_hourly_metrics catches a failed fetch, appends to pipeline_stats['errors']
\*    and returns; the run goes on;
\*  - the run then returns 'completed', and complete_sync records 'failed' when
\*    pipeline_stats['errors'] is not empty.
run_full_sync ==
    /\ Len(sync_history) < MaxRuns
    /\ \/ /\ sync_history' = IF current_sync_id # 0
                               THEN complete_sync(sync_history, current_sync_id, TRUE)
                               ELSE sync_history
          /\ dirty' = IF current_sync_id # 0 THEN FALSE ELSE dirty
          /\ last' = [op |-> "run_full_sync", status |-> "failed",
                      sync_id |-> current_sync_id, started |-> FALSE,
                      campaigns_fetch_fails |-> FALSE, metrics_fetch_fails |-> FALSE,
                      steps |-> {}, rows_before |-> campaign_hierarchy,
                      history_before |-> sync_history]
          /\ UNCHANGED <<campaign_hierarchy, current_sync_id>>
       \/ \E sync_id \in {Len(sync_history) + 1} :
          /\ current_sync_id' = sync_id
          /\ dirty' = FALSE
          /\ \/ /\ sync_history' =
                         complete_sync(start_sync(sync_history), sync_id, TRUE)
                /\ last' = [op |-> "run_full_sync", status |-> "failed",
                            sync_id |-> sync_id, started |-> TRUE,
                            campaigns_fetch_fails |-> TRUE,
                            metrics_fetch_fails |-> FALSE,
                            steps |-> {"sync_campaigns"},
                            rows_before |-> campaign_hierarchy,
                            history_before |-> sync_history]
                /\ UNCHANGED campaign_hierarchy
             \/ \E results \in {MapCampaigns(CampaignList)} :
                \E metrics_fetch_fails \in BOOLEAN :
                \E map_failed \in SUBSET Campaigns :
                \E store_failed \in SUBSET (Campaigns \ map_failed) :
                \E done \in {StoreMappings(campaign_hierarchy,
                                   map_campaigns_batch(results, map_failed),
                                   store_failed)} :
                /\ campaign_hierarchy' = done.campaign_hierarchy
                /\ sync_history' =
                       complete_sync(start_sync(sync_history), sync_id,
                                     metrics_fetch_fails \/ store_failed # {})
                /\ last' = [op |-> "run_full_sync", status |-> "completed",
                            sync_id |-> sync_id, started |-> TRUE,
                            campaigns_fetch_fails |-> FALSE,
                            metrics_fetch_fails |-> metrics_fetch_fails,
                            steps |-> AllSteps,
                            rows_before |-> campaign_hierarchy,
                            history_before |-> sync_history]
    /\ UNCHANGED <<overrides, now, set_calls, upsert_pc>>
    /\ UNCHANGED mapVars /\ UNCHANGED concVars /\ UNCHANGED toolVars
    /\ UNCHANGED cacheVars

NextSync ==
    \/ run_full_sync
    \/ process_hierarchy_mapping(Campaigns)
    \/ \E csv \in CsvFiles : import_hierarchy_overrides(csv)

SpecSync == Init /\ [][NextSync]_vars


\* ---------------------------------------------------------------- two connections
\* upsert_hierarchy_override statement by statement on a writer connection, and a
\* reader on a connection of its own.  sqlite3 opens a transaction before the first
\* UPDATE or INSERT of a connection and keeps it open until commit(); another
\* connection reads the committed rows.

\* Mutant: a connection in autocommit mode, every statement is committed at once.
VisibleToOthers_Autocommit(committed_rows, view) == view

\* The rows other connections see once the writer has executed a statement that
\* left it with the uncommitted rows `view`.
VisibleToOthers(committed_rows, view) == committed_rows

InitConc ==
    /\ campaign_hierarchy = {}
    /\ overrides = <<>>
    /\ now = 0
    /\ dirty = FALSE
    /\ last = [op |-> "none"]
    /\ set_calls = [c \in Campaigns |-> 0]
    /\ rules_file = DeployedRules
    /\ hierarchy_rules = insert_default_hierarchy_rules
    /\ map_name = <<>>
    /\ map_result = <<>>
    /\ committed = <<>>
    /\ wtxn = [pc |-> "idle"]
    /\ rseen = <<>>
    /\ PipeIdle
    /\ ToolIdle

ConcFrame ==
    /\ UNCHANGED <<campaign_hierarchy, overrides, dirty, last, set_calls>>
    /\ UNCHANGED mapVars
    /\ UNCHANGED toolVars
    /\ UNCHANGED pipeVars

\* lines 289-293: the UPDATE that deactivates, in a transaction it opens
WriterDeactivate(override_data) ==
    /\ wtxn.pc = "idle"
    /\ Len(committed) < MaxOverrides
    /\ \E view \in {DeactivateOverrides(committed, override_data.campaign_id)} :
        /\ wtxn' = [pc |-> "deactivated", override_data |-> override_data, view |-> view,
                    had_active |-> ActiveOverrides(committed, override_data.campaign_id) # {}]
        /\ committed' = VisibleToOthers(committed, view)
    /\ UNCHANGED <<now, rseen>>
    /\ ConcFrame

\* lines 296-311: the INSERT of the new active override
WriterInsert ==
    /\ wtxn.pc = "deactivated"
    /\ \E view \in {InsertOverride(wtxn.view, wtxn.override_data.campaign_id,
                                   wtxn.override_data, "Manual correction",
                                   wtxn.override_data.overridden_by, now)} :
        /\ wtxn' = [wtxn EXCEPT !.pc = "inserted", !.view = view]
        /\ committed' = VisibleToOthers(committed, view)
    /\ now' = now + 1
    /\ UNCHANGED rseen
    /\ ConcFrame

\* line 313: self.conn.commit()
WriterCommit ==
    /\ wtxn.pc = "inserted"
    /\ committed' = wtxn.view
    /\ wtxn' = [pc |-> "idle"]
    /\ UNCHANGED <<now, rseen>>
    /\ ConcFrame

\* A reader on another connection counts the active overrides of a campaign
\* (the query of get_hierarchy_override without its LIMIT).
ReaderSelect(c) ==
    /\ rseen' = <<[campaign_id |-> c,
                   active |-> Cardinality(ActiveOverrides(committed, c)),
                   writer_at |-> wtxn.pc,
                   during_call |-> wtxn.pc # "idle" /\ wtxn.override_data.campaign_id = c,
                   had_active |-> wtxn.pc # "idle" /\ wtxn.had_active]>>
    /\ UNCHANGED <<committed, wtxn, now>>
    /\ ConcFrame

NextConc ==
    \/ \E c \in Campaigns : \E fields \in OverrideFieldInputs :
           WriterDeactivate(OverrideData(c, fields, TRUE))
    \/ WriterInsert
    \/ WriterCommit
    \/ \E c \in Campaigns : ReaderSelect(c)

SpecConc == InitConc /\ [][NextConc]_vars

\* ---------------------------------------------------------------- sync against import
\* upsert_campaign_hierarchy on the sync's connection, in the two steps another
\* connection can come between: the SELECT of the active override, which leaves
\* no transaction open, and the INSERT OR REPLACE with its commit.  The import
\* script works on its own connection and holds the write lock from its first
\* UPDATE to its commit, so the sync sees it as one step.
UpsertSelect(hierarchy_data) ==
    /\ upsert_pc.pc = "idle"
    /\ upsert_pc' = [pc |-> "selected", hierarchy_data |-> hierarchy_data,
                     override |-> SelectActiveOverride(overrides,
                                                       hierarchy_data.campaign_id)]
    /\ UNCHANGED dbVars
    /\ UNCHANGED mapVars /\ UNCHANGED concVars /\ UNCHANGED toolVars
    /\ UNCHANGED syncVars /\ UNCHANGED cacheVars

UpsertWrite ==
    /\ upsert_pc.pc = "selected"
    /\ campaign_hierarchy' =
           InsertOrReplace(campaign_hierarchy,
                           MergedRow(upsert_pc.override, upsert_pc.hierarchy_data))
    /\ dirty' = FALSE
    /\ last' = [op |-> "upsert_campaign_hierarchy",
                campaign_id |-> upsert_pc.hierarchy_data.campaign_id,
                hierarchy_data |-> upsert_pc.hierarchy_data, again |-> FALSE]
    /\ upsert_pc' = [pc |-> "idle"]
    /\ UNCHANGED <<overrides, now, set_calls>>
    /\ UNCHANGED mapVars /\ UNCHANGED concVars /\ UNCHANGED toolVars
    /\ UNCHANGED syncVars /\ UNCHANGED cacheVars

NextRace ==
    \/ \E c \in Campaigns : \E hd \in HierarchyInputs(c) : UpsertSelect(hd)
    \/ UpsertWrite
    \/ \E csv \in CsvFiles : import_hierarchy_overrides(csv)

SpecRace == Init /\ [][NextRace]_vars

\* ---------------------------------------------------------------- properties
\* The hierarchy rows and the active override of the campaign of the last operation
LastRows == HierarchyRows(last.campaign_id)
LastOverride == get_hierarchy_override(last.campaign_id)

\* C1 - Override durability: after upsert_campaign_hierarchy for a campaign whose
\* active override has a non-null network V, called with a rule-based network other
\* than V, the stored record's network is V.
C1_OverrideDurability ==
    (/\ last.op = "upsert_campaign_hierarchy"
     /\ LastOverride # <<>>
     /\ LastOverride[1].network # NULL
     /\ last.hierarchy_data.network # LastOverride[1].network)
    => \A r \in LastRows : r.network = LastOverride[1].network

\* C2 - Once an override has been set for a campaign that has a hierarchy record,
\* every non-null field of the active override equals the record's field: setting
\* an override re-merges the record at once.
C2_OverrideFieldsInRecord ==
    (/\ last.op = "upsert_hierarchy_override"
     /\ ~last.raised)
    => \A r \in LastRows : \A f \in Fields :
           LastOverride[1][f] # NULL => r[f] = LastOverride[1][f]

\* C3 - A write path that stores campaign_hierarchy rows consults the active
\* override: after the name-based import, each row it wrote for a campaign with an
\* active override carries the override's non-null fields.
C3_WritePathsConsultOverride ==
    last.op = "import_hierarchy_by_name"
    => \A c \in last.written : \A r \in HierarchyRows(c) : \A f \in Fields :
           (/\ get_hierarchy_override(c) # <<>>
            /\ get_hierarchy_override(c)[1][f] # NULL)
           => r[f] = get_hierarchy_override(c)[1][f]

OverridesOf(c) == { i \in 1..Len(overrides) : overrides[i].campaign_id = c }

\* C4 - Single active override: a campaign never has two active override rows; it
\* has one row per override set for it; and when upsert_hierarchy_override returns,
\* the campaign's one active row is the row just inserted.
C4_SingleActiveOverride ==
    /\ \A c \in Campaigns :
          /\ Cardinality(ActiveOverrides(overrides, c)) <= 1
          /\ Cardinality(OverridesOf(c)) = set_calls[c]
    /\ (last.op = "upsert_hierarchy_override" /\ ~last.raised)
       => /\ ActiveOverrides(overrides, last.campaign_id) = {Len(overrides)}
          /\ \A f \in Fields : overrides[Len(overrides)][f] = last.override_data[f]

\* C4 witness: the second override set for a campaign has returned.
C4_Witness ==
    /\ last.op = "upsert_hierarchy_override"
    /\ ~last.raised
    /\ set_calls[last.campaign_id] >= 2
    /\ Cardinality(ActiveOverrides(overrides, last.campaign_id)) = 1

\* C5 - Atomic swap: a reader on another connection never counts two active
\* overrides for a campaign, and while upsert_hierarchy_override runs for a campaign
\* that had an active override it counts exactly one.
C5_AtomicOverrideSwap ==
    rseen # <<>>
    => /\ rseen[1].active <= 1
       /\ (rseen[1].during_call /\ rseen[1].had_active) => rseen[1].active = 1

\* C5 witness: the reader looked between the writer's UPDATE and its INSERT, at a
\* campaign that had an active override.
C5_Witness ==
    /\ rseen # <<>>
    /\ rseen[1].during_call
    /\ rseen[1].had_active
    /\ rseen[1].writer_at = "deactivated"
    /\ rseen[1].active = 1

\* C6 - Field-by-field merge: upsert_campaign_hierarchy stores, with an active
\* override, each field from the override when the override's value is non-null and
\* from the rule-based mapping otherwise, with confidence 1.0; without one, the
\* rule-based fields and the confidence passed in.
C6_FieldByFieldMerge ==
    last.op = "upsert_campaign_hierarchy"
    => /\ Cardinality(LastRows) = 1
       /\ \A r \in LastRows :
             IF LastOverride # <<>>
             THEN /\ \A f \in Fields :
                        r[f] = IF LastOverride[1][f] # NULL
                               THEN LastOverride[1][f] ELSE last.hierarchy_data[f]
                  /\ r.mapping_confidence = 10
             ELSE /\ \A f \in Fields : r[f] = last.hierarchy_data[f]
                  /\ "mapping_confidence" \in DOMAIN last.hierarchy_data
                     => r.mapping_confidence = last.hierarchy_data.mapping_confidence

\* C7 - The record of a campaign with an active override has confidence 1.0.
C7_OverrideConfidence ==
    \A c \in Campaigns :
        get_hierarchy_override(c) # <<>>
        => \A r \in HierarchyRows(c) : r.mapping_confidence = 10

\* C8 - Merge idempotence: upsert_campaign_hierarchy called again with the
\* hierarchy_data of the call before it, nothing else having run in between, leaves
\* every stored row as it was.
C8_MergeIdempotence ==
    [][(last'.op = "upsert_campaign_hierarchy" /\ last'.again)
       => campaign_hierarchy' = campaign_hierarchy]_vars

\* C8 witness: the call was repeated for a campaign with an active override, whose
\* record differs from the rule-based mapping passed in.
C8_Witness ==
    /\ last.op = "upsert_campaign_hierarchy"
    /\ last.again
    /\ LastOverride # <<>>
    /\ \E r \in LastRows : r.network # last.hierarchy_data.network

\* What the mapper returned, and the rules it ran
Resolved == map_result # <<>>
MatchingRules == { i \in 1..Len(get_rules) : match_rule(map_name, get_rules[i]) }
GivesValue(rule, f) == Truthy(rule.mapping[f]) /\ rule.mapping[f] # "inherit"

\* C9 - Priority precedence: of two rules that match the name, when the one of
\* higher priority gives a field a value other than inherit, and no matching rule
\* above it does, the final mapping has that value - the lower rule's value never
\* replaces it.
C9_PriorityPrecedence ==
    Resolved
    => \A i \in MatchingRules : \A j \in MatchingRules : \A f \in Fields :
           (/\ get_rules[i].priority > get_rules[j].priority
            /\ GivesValue(get_rules[i], f)
            /\ \A k \in MatchingRules :
                   get_rules[k].priority > get_rules[i].priority
                   => ~GivesValue(get_rules[k], f))
           => map_result[1].mapping[f] = get_rules[i].mapping[f]

Scored == conf_out # <<>>

\* C11 - Confidence bounds: the confidence get_mapping_confidence returns, and the
\* confidence a resolution returns, lies in [0.1, 1.0].
C11_ConfidenceBounds ==
    /\ Scored => (conf_out[1] >= 1 /\ conf_out[1] <= 10)
    /\ Resolved => (map_result[1].confidence >= 1 /\ map_result[1].confidence <= 10)

\* C11 witness: four matched rules with an exact and a priority-900 match and few
\* unknown fields add up to 1.1, and 1.0 is returned.
C11_Witness ==
    /\ Scored
    /\ Len(conf_in.matched_rules) >= 4
    /\ \E i \in 1..Len(conf_in.matched_rules) : conf_in.matched_rules[i].pattern_type = "exact"
    /\ \E i \in 1..Len(conf_in.matched_rules) : conf_in.matched_rules[i].priority >= 900
    /\ conf_in.mapping.network # "Unknown"
    /\ conf_in.mapping.targeting # "Unknown"
    /\ conf_out[1] = 10

\* The fields of a mapping still at their default "Unknown" value
AtUnknownDefault(mapping) ==
    { f \in Fields \ {"special"} : mapping[f] = default_hierarchy[f] }

\* The confidence formula of the specification, in tenths
FormulaConfidence(mapping, matched) ==
    IF Len(matched) = 0 THEN 1
    ELSE LET n == Len(matched)
             raw == (IF 2 * n < 8 THEN 2 * n ELSE 8)
                    + (IF \E i \in 1..n : matched[i].pattern_type = "exact" THEN 2 ELSE 0)
                    + (IF \E i \in 1..n : matched[i].priority >= 900 THEN 1 ELSE 0)
                    - (IF Cardinality(AtUnknownDefault(mapping)) >= 3 THEN 2 ELSE 0)
         IN  IF raw < 1 THEN 1 ELSE IF raw > 10 THEN 10 ELSE raw

NoActiveRule ==
    /\ \A i \in 1..Len(rules_file) : ~rules_file[i].active
    /\ \A i \in 1..Len(hierarchy_rules) : ~hierarchy_rules[i].is_active

\* C13 - Degraded mode: with no active rule in the rule file and none in the table
\* (an unreadable source loads as no rules), the resolver returns the default
\* hierarchy, no matched rule and confidence 0.1.
C13_DegradedMode ==
    (Resolved /\ NoActiveRule)
    => /\ map_result[1].mapping =
              Hier("Unknown", "Unknown Network", "Unknown", "Unknown", "Standard")
       /\ map_result[1].matched_rules = <<>>
       /\ map_result[1].confidence = 1

\* C13 witness: the rule file holds a rule, inactive, that matches the name; the
\* table is empty; the resolver answered.
C13_Witness ==
    /\ Resolved
    /\ NoActiveRule
    /\ \E i \in 1..Len(rules_file) : match_rule(map_name, rules_file[i])
    /\ map_result[1].confidence = 1

\* The names of the rules of the rule file
FileRuleNames == { rules_file[i].name : i \in 1..Len(rules_file) }

\* C14 - A rule file that fails validation is never activated: reload_to_database
\* returns False and leaves hierarchy_rules as it was, and a resolution matches no
\* rule of that file.
C14_InvalidRulesNeverActive ==
    validate_rules(load_rules) # <<>>
    => /\ last.op = "reload_to_database"
          => (~last.ret /\ hierarchy_rules = last.rows_before)
       /\ Resolved
          => \A i \in 1..Len(map_result[1].matched_rules) :
                 map_result[1].matched_rules[i].name \notin FileRuleNames

\* C15 - The rule set a resolution iterated has pairwise distinct priorities and
\* holds a rule of the fallback band (priority <= 10).
C15_DistinctPrioritiesAndFallback ==
    (Resolved /\ get_rules # <<>>)
    => /\ \A i, j \in 1..Len(get_rules) :
              i # j => get_rules[i].priority # get_rules[j].priority
       /\ \E i \in 1..Len(get_rules) : get_rules[i].priority <= 10

\* validate_rules has answered for a document that has its 'rules' and 'version' keys
Validated == errors # <<>> /\ DOMAIN rules_data = {"rules", "version"}

IsActiveEntry(rule) == "active" \in DOMAIN rule /\ rule.active

EntryLacksField(rule) == \E f \in {"name", "priority", "pattern_type", "pattern_value",
                                   "mapping", "active"} : f \notin DOMAIN rule

\* The defects the claim lists, of a list of rule entries
LacksField(rules) == \E i \in 1..Len(rules) : EntryLacksField(rules[i])

SharesPriority(rules) ==
    \E i, j \in 1..Len(rules) :
        /\ i # j
        /\ "priority" \in DOMAIN rules[i]
        /\ "priority" \in DOMAIN rules[j]
        /\ rules[i].priority = rules[j].priority

HasBadRegex(rules) ==
    \E i \in 1..Len(rules) :
        /\ "pattern_type" \in DOMAIN rules[i]
        /\ rules[i].pattern_type = "regex"
        /\ "pattern_value" \in DOMAIN rules[i]
        /\ ~RegexCompiles(rules[i].pattern_value)

HasActiveFallback(rules) ==
    \E i \in 1..Len(rules) :
        /\ IsActiveEntry(rules[i])
        /\ "priority" \in DOMAIN rules[i]
        /\ rules[i].priority <= 10

\* C16 - validate_rules returns errors for a document in which a rule lacks a
\* required field, two rules share a priority, a regex does not compile or no active
\* rule has priority <= 10, and returns no error for a document free of these.
C16_ValidateRules ==
    Validated
    => LET rules == rules_data.rules
           defective == \/ LacksField(rules)
                        \/ SharesPriority(rules)
                        \/ HasBadRegex(rules)
                        \/ ~HasActiveFallback(rules)
       IN  (errors[1] # <<>>) <=> defective

\* C17 - All-or-nothing: when upsert_hierarchy_override has raised after its
\* deactivating UPDATE, the override that was active before the call is still active
\* once a later operation of the connection (here upsert_campaign_hierarchy) has
\* committed.
C17_AllOrNothing ==
    [][(/\ last.op = "upsert_hierarchy_override"
        /\ last.raised
        /\ last'.op = "upsert_campaign_hierarchy")
       => \A i \in last.active_before : overrides'[i].is_active]_vars

\* C18 - delete_hierarchy_override returns true exactly when the campaign had an
\* active override before the call; after it the campaign has no active override,
\* and the rows of other campaigns are as before.
C18_DeleteReturn ==
    [][last'.op = "delete_hierarchy_override"
       => /\ last'.ret = (ActiveOverrides(overrides, last'.campaign_id) # {})
          /\ SelectActiveOverride(overrides', last'.campaign_id) = <<>>
          /\ Len(overrides') = Len(overrides)
          /\ \A i \in 1..Len(overrides) :
                 overrides[i].campaign_id # last'.campaign_id
                 => overrides'[i] = overrides[i]]_vars

\* C18 witness: an active override was turned off and true returned, while another
\* campaign keeps its active override.
C18_Witness ==
    /\ last.op = "delete_hierarchy_override"
    /\ last.ret
    /\ get_hierarchy_override(last.campaign_id) = <<>>
    /\ OverridesOf(last.campaign_id) # {}
    /\ \E c \in Campaigns \ {last.campaign_id} : get_hierarchy_override(c) # <<>>

\* A history list holds every override row of the campaign, the row set last first
NewestFirst(h, c) ==
    /\ Len(h) = set_calls[c]
    /\ { h[i].rowid : i \in 1..Len(h) } = OverridesOf(c)
    /\ \A i \in 1..Len(h) : \A j \in (i + 1)..Len(h) : h[i].rowid > h[j].rowid

\* C19 - Append-only history: after any sequence of operations
\* get_hierarchy_override_history with a large enough limit returns every override
\* ever set for the campaign, ordered newest first.
C19_HistoryAppendOnly ==
    \A c \in Campaigns :
        \A h \in get_hierarchy_override_history(c, Len(overrides)) : NewestFirst(h, c)

\* C20 - get_merged_hierarchy gives, per field, the active override's value when it
\* is non-null and the record's value otherwise, has_override true exactly with an
\* active override and then the override's reason, author and time; a campaign with
\* an active override always gets such an answer.
C20_MergedHierarchy ==
    \A c \in Campaigns :
        LET merged == get_merged_hierarchy(c)
            override == get_hierarchy_override(c)
        IN  /\ override # <<>> => merged # <<>>
            /\ merged # <<>>
               => /\ merged[1].has_override = (override # <<>>)
                  /\ \A r \in HierarchyRows(c) : \A f \in Fields :
                         merged[1][f] = IF override # <<>> /\ override[1][f] # NULL
                                        THEN override[1][f] ELSE r[f]
                  /\ override # <<>>
                     => /\ merged[1].override_reason = override[1].override_reason
                        /\ merged[1].overridden_by = override[1].overridden_by
                        /\ merged[1].overridden_at = override[1].overridden_at

\* C21 - Replace semantics: campaign_hierarchy never holds two rows of one
\* campaign_id, and after upsert_campaign_hierarchy the campaign's single row is the
\* one that call wrote, whatever row the campaign had before.
C21_OneRowPerCampaign ==
    /\ \A c \in Campaigns : Cardinality(HierarchyRows(c)) <= 1
    /\ last.op = "upsert_campaign_hierarchy" =>
           LastRows = {MergedRow(LastOverride, last.hierarchy_data)}
    /\ last.op = "import_hierarchy_by_name" =>
           \A c \in last.written : Cardinality(HierarchyRows(c)) = 1

\* C21 witness: the CSV import wrote the campaign's row with its override (the
\* imported override is still in the history), the override was revoked, and a
\* later upsert_campaign_hierarchy replaced the row with another network.
C21_Witness ==
    /\ last.op = "upsert_campaign_hierarchy"
    /\ \E i \in OverridesOf(last.campaign_id) :
           /\ overrides[i].override_reason = "CSV hierarchy import"
           /\ ~ overrides[i].is_active
           /\ \A r \in LastRows : r.network # overrides[i].network
    /\ Cardinality(LastRows) = 1

\* C28 - An override that is no longer active never influences a merge: when
\* upsert_campaign_hierarchy has run for a campaign all of whose overrides are
\* inactive (delete_hierarchy_override turned them off), the campaign's row holds exactly
\* the five rule-based fields and the confidence passed in (1.0 when none was).
C28_RevokedOverrideIgnored ==
    (/\ last.op = "upsert_campaign_hierarchy"
     /\ \A i \in OverridesOf(last.campaign_id) : ~ overrides[i].is_active)
    => LastRows = {HierarchyRow(last.campaign_id, last.hierarchy_data.campaign_name,
                                last.hierarchy_data,
                                IF "mapping_confidence" \in DOMAIN last.hierarchy_data
                                THEN last.hierarchy_data.mapping_confidence ELSE 10)}

\* C28 witness: the campaign has an override with a network, revoked, and the
\* upsert that followed stored the rule-based network and the confidence 0.5.
C28_Witness ==
    /\ last.op = "upsert_campaign_hierarchy"
    /\ OverridesOf(last.campaign_id) # {}
    /\ \A i \in OverridesOf(last.campaign_id) : ~ overrides[i].is_active
    /\ \E i \in OverridesOf(last.campaign_id) : Truthy(overrides[i].network)
    /\ \E r \in LastRows : r.network = "Unknown" /\ r.mapping_confidence = 5

C23_FailedFetchAborts ==
    (/\ last.op = "run_full_sync"
     /\ last.campaigns_fetch_fails \/ last.metrics_fetch_fails)
    => /\ last.status = "failed"
       /\ last.steps \subseteq {"sync_campaigns", "sync_hourly_metrics"}
       /\ campaign_hierarchy = last.rows_before

\* C30 - The status run_full_sync returns is the status of the run's row in
\* sync_history, and a row that was 'completed' before the run is still
\* 'completed' after it.
C30_StatusAgreesWithHistory ==
    last.op = "run_full_sync" =>
        /\ last.started => sync_history[last.sync_id] = last.status
        /\ \A i \in 1..Len(last.history_before) :
               last.history_before[i] = "completed" => sync_history[i] = "completed"

\* C24 - In the bulk import every CSV row is either matched to a campaign or
\* listed in not_found, and every matched row is either imported as one override
\* set or counted as an error: matched + not_found = rows and
\* imported + errors = matched.
C24_EveryRowAccounted ==
    last.op = "import_hierarchy_overrides" =>
        /\ last.counts.matched + last.counts.not_found = last.counts.rows
        /\ last.imported + last.errors = last.counts.matched

RuleNeverMatches(rule) ==
    \/ LowerType(rule.pattern_type) = "regex" /\ ~ RegexCompiles(rule.pattern_value)
    \/ LowerType(rule.pattern_type) \notin pattern_types

MatchedNames == { map_result[1].matched_rules[i].name :
                     i \in 1..Len(map_result[1].matched_rules) }

\* C25 - match_rule never raises to its caller: a resolution over any rule file
\* returns; a rule with an invalid regex or with a pattern_type that is not one of
\* the five is not among the matched rules, and the other rules of the file are
\* still evaluated (the universal fallback is among the matched rules).
C25_MatchRuleNeverRaises ==
    Resolved =>
        /\ "raised" \notin DOMAIN map_result[1]
        /\ \A i \in 1..Len(rules_file) :
               RuleNeverMatches(rules_file[i]) => rules_file[i].name \notin MatchedNames
        /\ \A i \in 1..Len(rules_file) :
               rules_file[i].name = "fallback" => "fallback" \in MatchedNames

\* C29 - RuleManager.test_campaign_mapping gives, for every campaign name and
\* rule file, the five-field mapping apply_mapping_rules gives from the same rules
\* (the mapper resolving from the rule file, which has an active rule).
C29_TestCommandAgrees ==
    (Resolved /\ load_rules_from_yaml # <<>>)
    => test_campaign_mapping(map_name).final_mapping = map_result[1].mapping

\* C26 - Rule cache coherence: a call of load_rules_from_yaml without force_reload
\* returns the rules of the file as it is when the call is made, whenever the
\* file was modified relative to earlier loads; and it reads the file again only
\* when there is no cached list or the file differs from what was cached.
C26_CacheCoherence ==
    (last.op = "load_rules_from_yaml" /\ ~ last.force_reload)
    => /\ last.ret = last.file_rules
       /\ (last.reread /\ last.cached_before # <<>>)
              => last.cached_before[1] # last.file_rules

\* C27 - A sync's upsert_campaign_hierarchy run concurrently with an import for
\* the same campaign: once both have finished, the campaign's record has the
\* active override's value in every field where the override has one.
C27_ConcurrentSyncKeepsOverride ==
    (/\ upsert_pc.pc = "idle"
     /\ last.op = "upsert_campaign_hierarchy"
     /\ LastOverride # <<>>)
    => \A r \in LastRows : \A f \in Fields :
           LastOverride[1][f] # NULL => r[f] = LastOverride[1][f]

====
